---- MODULE Spec2Model ----
(***************************************************************************)
(* Model of ZeroTier::VirtualTap (src/src/VirtualTap.cpp): the address     *)
(* set (_ips), the multicast membership (_multicastGroups), the interface  *)
(* state monitor (netif4/6WasUpLastCheck) and the device life cycle        *)
(* (constructor, destructor, threadMain).                                  *)
(*                                                                         *)
(* The specifications share the definitions below:                         *)
(*   Spec          one caller, every handler one atomic action             *)
(*   SpecNetif     recognizeLowerLevelInterfaceStateChange, the live link  *)
(*   SpecLife      constructor, destructor, monitor thread, step by step   *)
(*   SpecRun       SpecLife with every call the owner can make             *)
(*   SpecConc      two caller threads in addIp, removeIp and ips()         *)
(*   SpecConcScan  two caller threads, scanMulticastGroups included        *)
(*   SpecConcFair  SpecConcScan's threads under a fair scheduler           *)
(***************************************************************************)
EXTENDS Integers, Sequences, FiniteSets, TLC

\* ------------------------------------------------------------- bounds
MaxAddr == 4
\* Calls of recognizeLowerLevelInterfaceStateChange followed in SpecNetif.
MaxPolls == 5
\* Addresses used by the calls made during the device's life in SpecLife.
MaxLifeAddr == 1
\* Network ids a device is constructed with.
MaxNwid == 2
\* Addresses used by the two caller threads in SpecConc.
MaxConcAddr == 3
\* Addresses used by the two caller threads in SpecConcScan.
MaxScanAddr == 1
\* Values of the mtu argument of the constructor and of setMtu.
MaxMtu == 2
\* Calls of recognizeLowerLevelInterfaceStateChange followed in SpecRun.
MaxRunPolls == 1

\* InetAddress values, ordered by InetAddress::operator< (here: by number).
Addr == 1..MaxAddr
\* MulticastGroup values, ordered by MulticastGroup::operator<.  There are
\* half as many groups as addresses, so every derivation over the full
\* address range maps distinct addresses to one group.
Group == 1..(MaxAddr \div 2)

VARIABLES
  _ips,               \* std::vector<InetAddress> _ips
  _multicastGroups,   \* std::vector<MulticastGroup> _multicastGroups
  derive,             \* MulticastGroup::deriveMulticastGroupForAddressResolution
  health,             \* "ok", or "crashed" once undefined behaviour ended the process
  last,               \* the last completed call: its arguments, pre-state and results
  twice               \* the last two calls were the same call with the same argument

addrVars == <<_ips, _multicastGroups, derive, health, last, twice>>

VARIABLES
  netif4WasUpLastCheck,   \* bool netif4WasUpLastCheck
  netif6WasUpLastCheck,   \* bool netif6WasUpLastCheck
  lwip_up,                \* what lwip_is_netif_up answers now, per interface
  hist                    \* the calls of recognizeLowerLevelInterfaceStateChange so far

netifVars == <<netif4WasUpLastCheck, netif6WasUpLastCheck, lwip_up, hist>>

VARIABLES
  dpc,                \* where the owner is: before the constructor, live, in ~VirtualTap
  tpc,                \* where threadMain is
  _run,               \* bool _run
  _nwid,              \* uint64_t _nwid
  pipe,               \* _shutdownSignalPipe: "none", "open", "failed", "closed"
  pipeBytes,          \* bytes written to _shutdownSignalPipe[1] and not read
  events              \* what postEvent received, in order

lifeVars == <<dpc, tpc, _run, _nwid, pipe, pipeBytes, events>>

VARIABLES
  pc,                 \* where each caller thread is inside its call
  call,               \* each caller's call: arguments, locals and results
  _ips_m,             \* Mutex _ips_m: "free" or the caller holding it
  _multicastGroups_m, \* Mutex _multicastGroups_m: "free" or the caller holding it
  conc                \* two addIp calls that overlapped: what they must leave

concVars == <<pc, call, _ips_m, _multicastGroups_m, conc>>

VARIABLES
  _enabled,           \* bool _enabled
  _mtu                \* unsigned int _mtu

cfgVars == <<_enabled, _mtu>>

\* ------------------------------------------------------------- sequences
Range(s) == {s[i] : i \in DOMAIN s}

IsSorted(s) == \A i \in 1..(Len(s) - 1) : s[i] <= s[i + 1]

NoDup(s) == \A i, j \in DOMAIN s : i # j => s[i] # s[j]

RECURSIVE InsertSorted(_, _)
InsertSorted(x, s) ==
  IF s = <<>> THEN <<x>>
  ELSE IF x <= Head(s) THEN <<x>> \o s
  ELSE <<Head(s)>> \o InsertSorted(x, Tail(s))

\* std::sort(begin, end): the ascending permutation of the same elements.
RECURSIVE StdSort(_)
StdSort(s) == IF s = <<>> THEN <<>> ELSE InsertSorted(Head(s), StdSort(Tail(s)))

\* The ascending sequence of the elements of a set.
SetToSortedSeq(S) ==
  CHOOSE s \in [1..Cardinality(S) -> S] : Range(s) = S /\ IsSorted(s)

\* std::find(begin, end, x): index of the first x, Len(s) + 1 (end()) if none.
StdFind(s, x) ==
  IF \E i \in DOMAIN s : s[i] = x
  THEN CHOOSE i \in DOMAIN s : s[i] = x /\ \A j \in 1..(i - 1) : s[j] # x
  ELSE Len(s) + 1

\* vector::erase(i) for a dereferenceable iterator i.
StdErase(s, i) == [k \in 1..(Len(s) - 1) |-> IF k < i THEN s[k] ELSE s[k + 1]]

\* std::adjacent_find: first i with s[i] = s[i+1], Len(s) + 1 if none.
AdjacentFind(s) ==
  IF \E i \in 1..(Len(s) - 1) : s[i] = s[i + 1]
  THEN CHOOSE i \in 1..(Len(s) - 1) :
         s[i] = s[i + 1] /\ \A j \in 1..(i - 1) : s[j] # s[j + 1]
  ELSE Len(s) + 1

\* The loop of std::unique: while (++first != last) if (!(*dest == *first))
\* *++dest = move(*first).  `first` is the index already advanced.
RECURSIVE UniqueLoop(_, _, _)
UniqueLoop(s, dest, first) ==
  IF first > Len(s) THEN [arr |-> s, end |-> dest + 1]
  ELSE IF s[dest] # s[first]
       THEN UniqueLoop([s EXCEPT ![dest + 1] = s[first]], dest + 1, first + 1)
       ELSE UniqueLoop(s, dest, first + 1)

\* std::unique(begin, end) on a vector: works in place, never shortens the
\* vector; arr is the vector afterwards, end the returned iterator.  Moving a
\* MulticastGroup copies it, so the tail [end, Len] keeps its old values.
StdUnique(s) ==
  LET f == AdjacentFind(s)
  IN IF f > Len(s) THEN [arr |-> s, end |-> Len(s) + 1]
     ELSE UniqueLoop(s, f, f + 2)

\* std::lower_bound's bisection, computed as written whether or not the
\* range is sorted.
RECURSIVE LowerBound(_, _, _, _)
LowerBound(s, x, first, len) ==
  IF len <= 0 THEN first
  ELSE LET half == len \div 2
           mid == first + half
       IN IF s[mid] < x
          THEN LowerBound(s, x, mid + 1, len - half - 1)
          ELSE LowerBound(s, x, first, half)

BinarySearchFirstOnly(s, x) == Len(s) > 0 /\ s[1] = x

\* std::binary_search(begin, end, x).
BinarySearch(s, x) ==
  LET i == LowerBound(s, x, 1, Len(s))
  IN i <= Len(s) /\ ~(x < s[i])

\* ------------------------------------------------------------- address set
\* addIp, lines 147-150, without the find: push_back and sort whatever is there.
AddIpVecNoFind(v, ip) == StdSort(Append(v, ip))

\* addIp, lines 147-150, without the sort.
AddIpVecNoSort(v, ip) == IF StdFind(v, ip) = Len(v) + 1 THEN Append(v, ip) ELSE v

\* addIp, line 147: std::find(...) == _ips.end().
NotFound(v, ip) == StdFind(v, ip) = Len(v) + 1

\* addIp, lines 147-150: the vector after the call.
AddIpVec(v, ip) == IF NotFound(v, ip) THEN StdSort(Append(v, ip)) ELSE v

\* removeIp, line 161, when std::find returned end(): _ips.erase(_ips.end())
\* is undefined behaviour.  What builds make of it:
\*   "abort"    a checked or libc++ build: the element move runs off the
\*              buffer, or an assertion fires, and the process dies;
\*   "dropLast" libstdc++: the move loop runs zero times and _M_finish is
\*              decremented, so the LAST element is destroyed; on an empty
\*              vector _M_finish falls below _M_start and every later use of
\*              the vector is out of bounds (taken here as the end of the
\*              process).
EraseEndOutcomes == {"abort", "dropLast"}

EraseEnd(v, outcome) ==
  IF outcome = "dropLast" /\ Len(v) > 0
  THEN [vec |-> SubSeq(v, 1, Len(v) - 1), health |-> "ok"]
  ELSE [vec |-> v, health |-> "crashed"]

\* removeIp, line 161: _ips.erase(i).
EraseAt(v, i, outcome) ==
  IF i <= Len(v) THEN [vec |-> StdErase(v, i), health |-> "ok"]
  ELSE EraseEnd(v, outcome)

\* removeIp, lines 157-161: vector and process state after the call.
RemoveIpVec(v, ip, outcome) == EraseAt(v, StdFind(v, ip), outcome)

\* ------------------------------------------------------------- multicast
\* scanMulticastGroups, lines 213-214: one group per address, in address order.
DeriveAll(allIps) == [i \in DOMAIN allIps |-> derive[allIps[i]]]

\* Lines 216-217: sort, then std::unique whose result is discarded, so the
\* vector keeps its length.
NewGroups(allIps) == StdUnique(StdSort(DeriveAll(allIps))).arr

\* Lines 219-222.
ScanAdded(newGroups, stored) ==
  SelectSeq(newGroups, LAMBDA m : ~BinarySearch(stored, m))

\* Lines 223-226.
ScanRemoved(newGroups, stored) ==
  SelectSeq(stored, LAMBDA m : ~BinarySearch(newGroups, m))

ScanCommitKeepOld(newGroups, stored) == stored

\* Line 227: _multicastGroups.swap(newGroups).
ScanCommit(newGroups, stored) == newGroups

\* ------------------------------------------------------------- Spec
\* The record of a call: op and arg name it, pre is _ips as the call found
\* it, it the iterator std::find gave removeIp, ret the returned bool ("none":
\* no return), reg the lwip_init_interface calls made, snap the vector ips()
\* returned, old is _multicastGroups as the scan found it, added and removed
\* are what scanMulticastGroups appended to its two arguments.
NoCall ==
  [op |-> "none", arg |-> 0, ret |-> "none", pre |-> <<>>, it |-> 0,
   reg |-> <<>>, snap |-> <<>>, old |-> <<>>, added |-> <<>>, removed |-> <<>>]

\* The derivations that differ on the addresses in A only.
DerivationsOn(A) == {d \in [Addr -> Group] : \A a \in Addr \ A : d[a] = 1}

\* A constructed device whose callers will use the addresses in A: no
\* address, no group, any derivation.
InitAddrOn(A) ==
  /\ _ips = <<>>
  /\ _multicastGroups = <<>>
  /\ derive \in DerivationsOn(A)
  /\ health = "ok"
  /\ last = NoCall
  /\ twice = FALSE

InitAddr == InitAddrOn(Addr)

\* addIp with lwip_init_interface moved inside the if of line 147.
addIpRegisterIfNew(ip) ==
  /\ health = "ok"
  /\ _ips' = AddIpVec(_ips, ip)
  /\ last' = [NoCall EXCEPT !.op = "addIp", !.arg = ip, !.ret = "true",
                            !.pre = _ips,
                            !.reg = IF NotFound(_ips, ip) THEN <<ip>> ELSE <<>>]
  /\ twice' = (last.op = "addIp" /\ last.arg = ip)
  /\ UNCHANGED <<_multicastGroups, derive, health>>
  /\ UNCHANGED <<netifVars, lifeVars, concVars, cfgVars>>

\* bool VirtualTap::addIp(const InetAddress &ip)
addIp(ip) ==
  /\ health = "ok"
  /\ _ips' = AddIpVec(_ips, ip)
  /\ last' = [NoCall EXCEPT !.op = "addIp", !.arg = ip, !.ret = "true",
                            !.pre = _ips, !.reg = <<ip>>]
  /\ twice' = (last.op = "addIp" /\ last.arg = ip)
  /\ UNCHANGED <<_multicastGroups, derive, health>>
  /\ UNCHANGED <<netifVars, lifeVars, concVars, cfgVars>>

\* bool VirtualTap::removeIp(const InetAddress &ip)
removeIp(ip) ==
  /\ health = "ok"
  /\ \E outcome \in EraseEndOutcomes :
       LET r == RemoveIpVec(_ips, ip, outcome)
       IN /\ _ips' = r.vec
          /\ health' = r.health
          /\ last' = [NoCall EXCEPT !.op = "removeIp", !.arg = ip,
                                    !.ret = IF r.health = "ok" THEN "true" ELSE "none",
                                    !.pre = _ips]
  /\ twice' = FALSE
  /\ UNCHANGED <<_multicastGroups, derive>>
  /\ UNCHANGED <<netifVars, lifeVars, concVars, cfgVars>>

\* std::vector<InetAddress> VirtualTap::ips() const
ips ==
  /\ health = "ok"
  /\ last' = [NoCall EXCEPT !.op = "ips", !.pre = _ips, !.snap = _ips]
  /\ twice' = FALSE
  /\ UNCHANGED <<_ips, _multicastGroups, derive, health>>
  /\ UNCHANGED <<netifVars, lifeVars, concVars, cfgVars>>

\* void VirtualTap::scanMulticastGroups(added, removed); the two output
\* vectors are taken empty on entry.
scanMulticastGroups ==
  /\ health = "ok"
  /\ LET newGroups == NewGroups(_ips)
     IN /\ last' = [NoCall EXCEPT !.op = "scan", !.pre = _ips,
                                  !.old = _multicastGroups,
                                  !.added = ScanAdded(newGroups, _multicastGroups),
                                  !.removed = ScanRemoved(newGroups, _multicastGroups)]
        /\ _multicastGroups' = ScanCommit(newGroups, _multicastGroups)
  /\ twice' = (last.op = "scan")
  /\ UNCHANGED <<_ips, derive, health>>
  /\ UNCHANGED <<netifVars, lifeVars, concVars, cfgVars>>

NextAddr ==
  \/ \E ip \in Addr : addIp(ip)
  \/ \E ip \in Addr : removeIp(ip)
  \/ ips
  \/ scanMulticastGroups

\* ------------------------------------------------------------- SpecNetif
\* The void* handed to recognizeLowerLevelInterfaceStateChange: null, the
\* device's two interface handles netif4 and netif6, or any other pointer.
Handles == {"null", "netif4", "netif6", "other"}

Netifs == {"netif4", "netif6"}

\* recognizeLowerLevelInterfaceStateChange without the stores to the
\* was-up flags (lines 106, 110, 116, 120).
RecognizeNoStore(n, was4, was6, up) ==
  IF n = "netif4" /\ was4 # up["netif4"]
  THEN [ret |-> IF was4 THEN "NETIF_DOWN_IP4" ELSE "NETIF_UP_IP4",
        was4 |-> was4, was6 |-> was6]
  ELSE IF n = "netif6" /\ was6 # up["netif6"]
  THEN [ret |-> IF was6 THEN "NETIF_DOWN_IP6" ELSE "NETIF_UP_IP6",
        was4 |-> was4, was6 |-> was6]
  ELSE [ret |-> "NONE", was4 |-> was4, was6 |-> was6]

\* recognizeLowerLevelInterfaceStateChange without the comparison of n with
\* netif4 (line 104): every handle that is not null and not netif6 is taken
\* for netif4.
RecognizeNoHandleCheck(n, was4, was6, up) ==
  IF n = "null" THEN [ret |-> "NONE", was4 |-> was4, was6 |-> was6]
  ELSE IF n # "netif6" /\ was4 /\ ~up["netif4"]
  THEN [ret |-> "NETIF_DOWN_IP4", was4 |-> FALSE, was6 |-> was6]
  ELSE IF n # "netif6" /\ ~was4 /\ up["netif4"]
  THEN [ret |-> "NETIF_UP_IP4", was4 |-> TRUE, was6 |-> was6]
  ELSE IF n = "netif6" /\ was6 /\ ~up["netif6"]
  THEN [ret |-> "NETIF_DOWN_IP6", was4 |-> was4, was6 |-> FALSE]
  ELSE IF n = "netif6" /\ ~was6 /\ up["netif6"]
  THEN [ret |-> "NETIF_UP_IP6", was4 |-> was4, was6 |-> TRUE]
  ELSE [ret |-> "NONE", was4 |-> was4, was6 |-> was6]

\* Lines 101-124: the returned event code and the two flags afterwards.
\* up[i] is what lwip_is_netif_up answers during the call; the conditions
\* short-circuit so that each call asks at most once.
Recognize(n, was4, was6, up) ==
  IF n = "null" THEN [ret |-> "NONE", was4 |-> was4, was6 |-> was6]
  ELSE IF n = "netif4" /\ was4 /\ ~up["netif4"]
  THEN [ret |-> "NETIF_DOWN_IP4", was4 |-> FALSE, was6 |-> was6]
  ELSE IF n = "netif4" /\ ~was4 /\ up["netif4"]
  THEN [ret |-> "NETIF_UP_IP4", was4 |-> TRUE, was6 |-> was6]
  ELSE IF n = "netif6" /\ was6 /\ ~up["netif6"]
  THEN [ret |-> "NETIF_DOWN_IP6", was4 |-> was4, was6 |-> FALSE]
  ELSE IF n = "netif6" /\ ~was6 /\ up["netif6"]
  THEN [ret |-> "NETIF_UP_IP6", was4 |-> was4, was6 |-> TRUE]
  ELSE [ret |-> "NONE", was4 |-> was4, was6 |-> was6]

\* The flags' initial values are set outside VirtualTap.cpp; any value is
\* taken.  The interfaces start up or down.
InitNetif ==
  /\ netif4WasUpLastCheck \in BOOLEAN
  /\ netif6WasUpLastCheck \in BOOLEAN
  /\ lwip_up \in [Netifs -> BOOLEAN]
  /\ hist = <<>>

\* uint64_t VirtualTap::recognizeLowerLevelInterfaceStateChange(void *n)
recognizeLowerLevelInterfaceStateChange(n) ==
  /\ Len(hist) < MaxPolls
  /\ LET r == Recognize(n, netif4WasUpLastCheck, netif6WasUpLastCheck, lwip_up)
     IN /\ netif4WasUpLastCheck' = r.was4
        /\ netif6WasUpLastCheck' = r.was6
        /\ hist' = Append(hist,
             [n |-> n, ret |-> r.ret,
              q |-> IF n \in Netifs THEN lwip_up[n] ELSE FALSE,
              was4 |-> netif4WasUpLastCheck, was6 |-> netif6WasUpLastCheck,
              now4 |-> r.was4, now6 |-> r.was6])
  /\ UNCHANGED lwip_up
  /\ UNCHANGED <<addrVars, lifeVars, concVars, cfgVars>>

\* The network stack brings an interface up or down (lwip_is_netif_up flips).
LinkFlip(i) ==
  /\ lwip_up' = [lwip_up EXCEPT ![i] = ~lwip_up[i]]
  /\ UNCHANGED <<netif4WasUpLastCheck, netif6WasUpLastCheck, hist>>
  /\ UNCHANGED <<addrVars, lifeVars, concVars, cfgVars>>

NextNetif ==
  \/ \E n \in Handles : recognizeLowerLevelInterfaceStateChange(n)
  \/ \E i \in Netifs : LinkFlip(i)

\* ------------------------------------------------------------- SpecLife
NetworkIds == 1..MaxNwid

Mtus == 1..MaxMtu

LifeAddr == 1..MaxLifeAddr

\* Before the constructor has run.
InitLife ==
  /\ dpc = "new"
  /\ tpc = "none"
  /\ _run = FALSE
  /\ _nwid = 0
  /\ pipe = "none"
  /\ pipeBytes = 0
  /\ events = <<>>
  /\ _enabled = FALSE
  /\ _mtu = 0

\* postEvent(id, eventCode), called nowhere but at line 89, with the call dropped.
PostEventDropped(evs, id, code) == evs

\* postEvent(id, eventCode): the event sink receives the pair.
PostEvent(evs, id, code) == Append(evs, <<id, code>>)

\* VirtualTap::VirtualTap, lines 66-85: _enabled(true), _run(true),
\* _mtu(mtu), _nwid(nwid), ::pipe (its return value is not looked at),
\* Thread::start(this).  Nothing is posted.
Construct(nwid, mtu, pipeOk) ==
  /\ dpc = "new"
  /\ dpc' = "live"
  /\ _enabled' = TRUE
  /\ _run' = TRUE
  /\ _mtu' = mtu
  /\ _nwid' = nwid
  /\ pipe' = IF pipeOk THEN "open" ELSE "failed"
  /\ tpc' = "select"
  /\ UNCHANGED <<pipeBytes, events>>
  /\ UNCHANGED <<addrVars, netifVars, concVars>>

\* FD_ISSET(_shutdownSignalPipe[0], &nullfds): the wrong set, never set.
FdIsSetNullfds(selectFailed, readable) == FALSE

\* Lines 252-255: FD_SET, select, FD_ISSET.  select's return value is not
\* looked at; when select fails it leaves readfds as FD_SET made it.
FdIsSet(selectFailed, readable) == selectFailed \/ readable

\* threadMain, lines 252-257: one round of the loop up to the break.  The
\* timeout is zero, so select does not wait.  With a pipe that was never
\* created the descriptor read is indeterminate and so is the answer.
ThreadSelect(selectFailed, garbage) ==
  /\ tpc = "select"
  /\ health = "ok"
  /\ LET readable == IF pipe = "failed" THEN garbage ELSE pipeBytes > 0
     IN tpc' = IF FdIsSet(selectFailed, readable) THEN "returned" ELSE "nanosleep"
  /\ UNCHANGED <<dpc, _run, _nwid, pipe, pipeBytes, events>>
  /\ UNCHANGED <<addrVars, netifVars, concVars, cfgVars>>

\* threadMain, lines 261-263: nanosleep, then the next round.
ThreadSleep ==
  /\ tpc = "nanosleep"
  /\ health = "ok"
  /\ tpc' = "select"
  /\ UNCHANGED <<dpc, _run, _nwid, pipe, pipeBytes, events>>
  /\ UNCHANGED <<addrVars, netifVars, concVars, cfgVars>>

\* ~VirtualTap, line 89.
DtorPostEvent ==
  /\ dpc = "live"
  /\ health = "ok"
  /\ events' = PostEvent(events, _nwid, "NETWORK_DOWN")
  /\ dpc' = "posted"
  /\ UNCHANGED <<tpc, _run, _nwid, pipe, pipeBytes>>
  /\ UNCHANGED <<addrVars, netifVars, concVars, cfgVars>>

\* ~VirtualTap, line 90.
DtorClearRun ==
  /\ dpc = "posted"
  /\ _run' = FALSE
  /\ dpc' = "stopped"
  /\ UNCHANGED <<tpc, _nwid, pipe, pipeBytes, events>>
  /\ UNCHANGED <<addrVars, netifVars, concVars, cfgVars>>

\* ~VirtualTap, line 91: one byte into the pipe (nothing when there is none).
DtorWrite ==
  /\ dpc = "stopped"
  /\ pipeBytes' = IF pipe = "open" THEN pipeBytes + 1 ELSE pipeBytes
  /\ dpc' = "signalled"
  /\ UNCHANGED <<tpc, _run, _nwid, pipe, events>>
  /\ UNCHANGED <<addrVars, netifVars, concVars, cfgVars>>

\* ~VirtualTap, line 92: _phy.whack().
DtorWhack ==
  /\ dpc = "signalled"
  /\ dpc' = "whacked"
  /\ UNCHANGED <<tpc, _run, _nwid, pipe, pipeBytes, events>>
  /\ UNCHANGED <<addrVars, netifVars, concVars, cfgVars>>

\* ~VirtualTap, line 93: lwip_dispose_of_netifs(this).
DtorDispose ==
  /\ dpc = "whacked"
  /\ dpc' = "disposed"
  /\ UNCHANGED <<tpc, _run, _nwid, pipe, pipeBytes, events>>
  /\ UNCHANGED <<addrVars, netifVars, concVars, cfgVars>>

\* Thread::join that does not wait for the thread.
DtorJoinNoWait ==
  /\ dpc = "disposed"
  /\ dpc' = "joined"
  /\ UNCHANGED <<tpc, _run, _nwid, pipe, pipeBytes, events>>
  /\ UNCHANGED <<addrVars, netifVars, concVars, cfgVars>>

\* ~VirtualTap, line 94: Thread::join returns once threadMain has returned.
DtorJoin ==
  /\ dpc = "disposed"
  /\ tpc = "returned"
  /\ dpc' = "joined"
  /\ UNCHANGED <<tpc, _run, _nwid, pipe, pipeBytes, events>>
  /\ UNCHANGED <<addrVars, netifVars, concVars, cfgVars>>

\* ~VirtualTap, lines 95-96.
DtorClose ==
  /\ dpc = "joined"
  /\ pipe' = IF pipe = "open" THEN "closed" ELSE pipe
  /\ dpc' = "done"
  /\ UNCHANGED <<tpc, _run, _nwid, pipeBytes, events>>
  /\ UNCHANGED <<addrVars, netifVars, concVars, cfgVars>>

\* The steps of the destructor after its first.
DtorRest ==
  \/ DtorClearRun
  \/ DtorWrite
  \/ DtorWhack
  \/ DtorDispose
  \/ DtorJoin
  \/ DtorClose

\* threadMain.
ThreadStep ==
  \/ \E selectFailed, garbage \in BOOLEAN : ThreadSelect(selectFailed, garbage)
  \/ ThreadSleep

\* setEnabled with a second store, to _run.
setEnabledAlsoRun(en) ==
  /\ health = "ok"
  /\ _enabled' = en
  /\ _run' = en
  /\ UNCHANGED <<_mtu, dpc, tpc, _nwid, pipe, pipeBytes, events>>
  /\ UNCHANGED <<addrVars, netifVars, concVars>>

\* void VirtualTap::setEnabled(bool en), lines 132-135.
setEnabled(en) ==
  /\ health = "ok"
  /\ _enabled' = en
  /\ UNCHANGED _mtu
  /\ UNCHANGED <<addrVars, netifVars, lifeVars, concVars>>

\* void VirtualTap::setMtu(unsigned int mtu), lines 230-233.
setMtu(mtu) ==
  /\ health = "ok"
  /\ _mtu' = mtu
  /\ UNCHANGED _enabled
  /\ UNCHANGED <<addrVars, netifVars, lifeVars, concVars>>

\* Calls on the live device, made by its owner before it destroys the device.
LifeCall ==
  /\ dpc = "live"
  /\ \/ \E ip \in LifeAddr : addIp(ip)
     \/ \E ip \in LifeAddr : removeIp(ip)
     \/ scanMulticastGroups

\* The address the owner's calls use in SpecRun.
RunAddr == {1}

\* Every member function that VirtualTap.cpp gives a body that stores
\* something, called on the live device by its owner.
RunCall ==
  /\ dpc = "live"
  /\ \/ \E ip \in RunAddr : addIp(ip)
     \/ \E ip \in RunAddr : removeIp(ip)
     \/ scanMulticastGroups
     \/ \E en \in BOOLEAN : setEnabled(en)
     \/ \E mtu \in Mtus : setMtu(mtu)
     \/ \E n \in Handles :
          Len(hist) < MaxRunPolls /\ recognizeLowerLevelInterfaceStateChange(n)

\* The device constructed and in use, for the specifications that leave
\* construction and destruction out.
FrozenLife ==
  /\ dpc = "live"
  /\ tpc = "select"
  /\ _run = TRUE
  /\ _nwid = 1
  /\ pipe = "open"
  /\ pipeBytes = 0
  /\ events = <<>>
  /\ _enabled = TRUE
  /\ _mtu = 1

\* The interface monitor, for the specifications that leave it out.
FrozenNetif ==
  /\ netif4WasUpLastCheck = FALSE
  /\ netif6WasUpLastCheck = FALSE
  /\ lwip_up = [i \in Netifs |-> FALSE]
  /\ hist = <<>>

\* The address set and multicast membership, for the specifications that
\* leave them out.
FrozenAddr ==
  /\ _ips = <<>>
  /\ _multicastGroups = <<>>
  /\ derive = [a \in Addr |-> 1]
  /\ health = "ok"
  /\ last = NoCall
  /\ twice = FALSE

\* ------------------------------------------------------------- SpecConc
\* Two threads calling into one device.
Callers == {"A", "B"}

ConcAddr == 1..MaxConcAddr

ScanAddr == 1..MaxScanAddr

NoConc == [on |-> FALSE, base |-> {}, xs |-> {}, left |-> {}]

InitConc ==
  /\ pc = [t \in Callers |-> "idle"]
  /\ call = [t \in Callers |-> NoCall]
  /\ _ips_m = "free"
  /\ _multicastGroups_m = "free"
  /\ conc = NoConc

\* A Mutex::Lock that never waits.
MutexFreeAlways(m) == TRUE

\* Mutex::Lock _l(m) gets past its constructor only when nobody holds m.
MutexFree(m) == m = "free"

\* A thread enters a member function.  An addIp entered while the other
\* thread is inside addIp starts the pair's record; any other entry ends it.
Enter(t, op, arg) ==
  /\ health = "ok"
  /\ pc[t] = "idle"
  /\ pc' = [pc EXCEPT ![t] = op \o "_lock"]
  /\ call' = [call EXCEPT ![t] = [NoCall EXCEPT !.op = op, !.arg = arg]]
  /\ conc' = IF op = "addIp" /\ \E u \in Callers \ {t} :
                                  pc[u] # "idle" /\ call[u].op = "addIp"
             THEN [on |-> TRUE, base |-> Range(_ips),
                   xs |-> {arg} \cup {call[u].arg : u \in Callers \ {t}},
                   left |-> Callers]
             ELSE NoConc
  /\ UNCHANGED <<_ips, _multicastGroups, derive, health, _ips_m, _multicastGroups_m>>
  /\ UNCHANGED <<last, twice, netifVars, lifeVars, cfgVars>>

\* addIp, lines 145-147: lock, lwip_init_interface, std::find.
AddIpLock(t) ==
  /\ health = "ok"
  /\ pc[t] = "addIp_lock"
  /\ MutexFree(_ips_m)
  /\ _ips_m' = t
  /\ call' = [call EXCEPT ![t].reg = <<call[t].arg>>, ![t].pre = _ips]
  /\ pc' = [pc EXCEPT ![t] = IF NotFound(_ips, call[t].arg)
                             THEN "addIp_push" ELSE "addIp_unlock"]
  /\ UNCHANGED <<_ips, _multicastGroups, derive, health, _multicastGroups_m, conc>>
  /\ UNCHANGED <<last, twice, netifVars, lifeVars, cfgVars>>

\* addIp, line 148.
AddIpPush(t) ==
  /\ health = "ok"
  /\ pc[t] = "addIp_push"
  /\ _ips' = Append(_ips, call[t].arg)
  /\ pc' = [pc EXCEPT ![t] = "addIp_sort"]
  /\ UNCHANGED <<_multicastGroups, derive, health, call, _ips_m, _multicastGroups_m, conc>>
  /\ UNCHANGED <<last, twice, netifVars, lifeVars, cfgVars>>

\* addIp, lines 149-152: std::sort when the address was pushed, then return
\* true, which unlocks.
AddIpReturn(t) ==
  /\ health = "ok"
  /\ pc[t] \in {"addIp_sort", "addIp_unlock"}
  /\ _ips' = IF pc[t] = "addIp_sort" THEN StdSort(_ips) ELSE _ips
  /\ _ips_m' = "free"
  /\ call' = [call EXCEPT ![t].ret = "true"]
  /\ pc' = [pc EXCEPT ![t] = "idle"]
  /\ conc' = [conc EXCEPT !.left = conc.left \ {t}]
  /\ UNCHANGED <<_multicastGroups, derive, health, _multicastGroups_m>>
  /\ UNCHANGED <<last, twice, netifVars, lifeVars, cfgVars>>

\* removeIp, lines 156-157: lock and std::find.
RemoveIpLock(t) ==
  /\ health = "ok"
  /\ pc[t] = "removeIp_lock"
  /\ MutexFree(_ips_m)
  /\ _ips_m' = t
  /\ call' = [call EXCEPT ![t].pre = _ips, ![t].it = StdFind(_ips, call[t].arg)]
  /\ pc' = [pc EXCEPT ![t] = "removeIp_erase"]
  /\ UNCHANGED <<_ips, _multicastGroups, derive, health, _multicastGroups_m, conc>>
  /\ UNCHANGED <<last, twice, netifVars, lifeVars, cfgVars>>

\* removeIp, lines 161-168: erase the iterator, return true, unlock.
RemoveIpReturn(t) ==
  /\ pc[t] = "removeIp_erase"
  /\ health = "ok"
  /\ \E outcome \in EraseEndOutcomes :
       LET r == EraseAt(_ips, call[t].it, outcome)
       IN /\ _ips' = r.vec
          /\ health' = r.health
          /\ call' = [call EXCEPT ![t].ret = IF r.health = "ok" THEN "true" ELSE "none"]
  /\ _ips_m' = "free"
  /\ pc' = [pc EXCEPT ![t] = "idle"]
  /\ UNCHANGED <<_multicastGroups, derive, _multicastGroups_m, conc>>
  /\ UNCHANGED <<last, twice, netifVars, lifeVars, cfgVars>>

\* ips() without the Mutex::Lock of line 173.
IpsReturnNoLock(t) ==
  /\ health = "ok"
  /\ pc[t] = "ips_lock"
  /\ call' = [call EXCEPT ![t].snap = _ips]
  /\ pc' = [pc EXCEPT ![t] = "idle"]
  /\ UNCHANGED <<_ips, _multicastGroups, derive, health, _ips_m, _multicastGroups_m, conc>>
  /\ UNCHANGED <<last, twice, netifVars, lifeVars, cfgVars>>

\* ips(), lines 173-174: lock, copy the vector, unlock.
IpsReturn(t) ==
  /\ health = "ok"
  /\ pc[t] = "ips_lock"
  /\ MutexFree(_ips_m)
  /\ call' = [call EXCEPT ![t].snap = _ips]
  /\ pc' = [pc EXCEPT ![t] = "idle"]
  /\ UNCHANGED <<_ips, _multicastGroups, derive, health, _ips_m, _multicastGroups_m, conc>>
  /\ UNCHANGED <<last, twice, netifVars, lifeVars, cfgVars>>

\* scanMulticastGroups without the Mutex::Lock of line 210.
ScanLockNoMutex(t) ==
  /\ health = "ok"
  /\ pc[t] = "scan_lock"
  /\ pc' = [pc EXCEPT ![t] = "scan_ips"]
  /\ UNCHANGED <<_ips, _multicastGroups, derive, health, call, _ips_m,
                 _multicastGroups_m, conc>>
  /\ UNCHANGED <<last, twice, netifVars, lifeVars, cfgVars>>

\* scanMulticastGroups locking _ips_m at line 210, the wrong mutex.
ScanLockWrongMutex(t) ==
  /\ health = "ok"
  /\ pc[t] = "scan_lock"
  /\ MutexFree(_ips_m)
  /\ _ips_m' = t
  /\ pc' = [pc EXCEPT ![t] = "scan_ips"]
  /\ UNCHANGED <<_ips, _multicastGroups, derive, health, call, _multicastGroups_m, conc>>
  /\ UNCHANGED <<last, twice, netifVars, lifeVars, cfgVars>>

\* scanMulticastGroups, line 210: lock _multicastGroups_m.
ScanLock(t) ==
  /\ health = "ok"
  /\ pc[t] = "scan_lock"
  /\ MutexFree(_multicastGroups_m)
  /\ _multicastGroups_m' = t
  /\ pc' = [pc EXCEPT ![t] = "scan_ips"]
  /\ UNCHANGED <<_ips, _multicastGroups, derive, health, call, _ips_m, conc>>
  /\ UNCHANGED <<last, twice, netifVars, lifeVars, cfgVars>>

\* scanMulticastGroups, line 212: allIps(ips()), under _ips_m; pre holds allIps.
ScanIps(t) ==
  /\ health = "ok"
  /\ pc[t] = "scan_ips"
  /\ MutexFree(_ips_m)
  /\ call' = [call EXCEPT ![t].pre = _ips]
  /\ pc' = [pc EXCEPT ![t] = "scan_diff"]
  /\ UNCHANGED <<_ips, _multicastGroups, derive, health, _ips_m, _multicastGroups_m, conc>>
  /\ UNCHANGED <<last, twice, netifVars, lifeVars, cfgVars>>

\* scanMulticastGroups, lines 213-228: derive, sort, unique, the two
\* loops, the swap; the return unlocks _multicastGroups_m.
ScanReturn(t) ==
  /\ health = "ok"
  /\ pc[t] = "scan_diff"
  /\ LET newGroups == NewGroups(call[t].pre)
     IN /\ call' = [call EXCEPT ![t].old = _multicastGroups,
                                ![t].added = ScanAdded(newGroups, _multicastGroups),
                                ![t].removed = ScanRemoved(newGroups, _multicastGroups)]
        /\ _multicastGroups' = ScanCommit(newGroups, _multicastGroups)
  /\ _multicastGroups_m' = "free"
  /\ pc' = [pc EXCEPT ![t] = "idle"]
  /\ UNCHANGED <<_ips, derive, health, _ips_m, conc>>
  /\ UNCHANGED <<last, twice, netifVars, lifeVars, cfgVars>>

\* The steps of addIp, removeIp and ips() by thread t.
AddrSteps(t) ==
  \/ AddIpLock(t)
  \/ AddIpPush(t)
  \/ AddIpReturn(t)
  \/ RemoveIpLock(t)
  \/ RemoveIpReturn(t)
  \/ IpsReturn(t)

\* The steps of scanMulticastGroups by thread t.
ScanSteps(t) ==
  \/ ScanLock(t)
  \/ ScanIps(t)
  \/ ScanReturn(t)

\* Two threads in addIp, removeIp and ips().
NextConc ==
  \E t \in Callers :
    \/ \E ip \in ConcAddr : Enter(t, "addIp", ip)
    \/ \E ip \in ConcAddr : Enter(t, "removeIp", ip)
    \/ Enter(t, "ips", 0)
    \/ AddrSteps(t)

\* The steps of thread t inside whichever call it has entered.
CallSteps(t) == AddrSteps(t) \/ ScanSteps(t)

\* Two threads in addIp, removeIp, ips() and scanMulticastGroups.
NextConcScan ==
  \E t \in Callers :
    \/ \E ip \in ScanAddr : Enter(t, "addIp", ip)
    \/ \E ip \in ScanAddr : Enter(t, "removeIp", ip)
    \/ Enter(t, "ips", 0)
    \/ Enter(t, "scan", 0)
    \/ CallSteps(t)

\* No caller inside the device, for the specifications with one caller.
FrozenConc == InitConc

\* ------------------------------------------------------------- specifications
vars == <<addrVars, netifVars, lifeVars, concVars, cfgVars>>

NextLife ==
  \/ \E nwid \in NetworkIds, mtu \in Mtus, pipeOk \in BOOLEAN :
       Construct(nwid, mtu, pipeOk)
  \/ LifeCall
  \/ ThreadStep
  \/ DtorPostEvent
  \/ DtorRest

\* The whole life of a device with every call its owner can make; the
\* interfaces are up or down from the start and stay so.
NextRun ==
  \/ \E mtu \in Mtus, pipeOk \in BOOLEAN : Construct(1, mtu, pipeOk)
  \/ RunCall
  \/ ThreadStep
  \/ DtorPostEvent
  \/ DtorRest

\* The scheduler runs a thread that can take a step: threadMain, and the
\* owner once it is inside the destructor.  Nothing forces the owner to
\* destroy the device.
FairLife == WF_vars(ThreadStep) /\ WF_vars(DtorRest)

\* One caller; the device is constructed and not destroyed.
InitSpec == InitAddr /\ FrozenNetif /\ FrozenLife /\ FrozenConc

Spec == InitSpec /\ [][NextAddr]_vars

InitSpecNetif == InitNetif /\ FrozenAddr /\ FrozenLife /\ FrozenConc

SpecNetif == InitSpecNetif /\ [][NextNetif]_vars

\* Two callers of addIp, removeIp and ips(); the derivation plays no part.
InitSpecConc == InitConc /\ InitAddrOn({}) /\ FrozenNetif /\ FrozenLife

SpecConc == InitSpecConc /\ [][NextConc]_vars

InitSpecConcScan == InitConc /\ InitAddrOn(ScanAddr) /\ FrozenNetif /\ FrozenLife

\* The scheduler is fair to each thread inside a call, also at a mutex that
\* is free again and again: a waiting Mutex::Lock gets the mutex in the end.
\* Nothing makes a thread start a call.
FairConcScan == \A t \in Callers : SF_vars(CallSteps(t))

SpecConcScan == InitSpecConcScan /\ [][NextConcScan]_vars

\* The same two threads under the fair scheduler; the derivation plays no part.
SpecConcFair == InitSpecConc /\ [][NextConcScan]_vars /\ FairConcScan

\* From before the constructor to the end of the destructor.
InitSpecLife == InitLife /\ InitAddrOn(LifeAddr) /\ FrozenNetif /\ FrozenConc

SpecLife == InitSpecLife /\ [][NextLife]_vars /\ FairLife

\* From before the constructor to the end of the destructor, with every call.
InitSpecRun == InitLife /\ InitAddrOn({}) /\ InitNetif /\ FrozenConc

SpecRun == InitSpecRun /\ [][NextRun]_vars

\* ------------------------------------------------------------- claims on Spec
\* Two distinct addresses of the vector derive the same group.
Collides(v) == \E i, j \in DOMAIN v : i # j /\ derive[v[i]] = derive[v[j]]

\* The address was not in the set when the recorded call began.
AbsentBefore == StdFind(last.pre, last.arg) > Len(last.pre)

\* C1: over any sequence of addIp and removeIp calls from the empty set, every
\* vector returned by ips() is in ascending order and holds no address twice.
C1_SnapshotSortedNoDup ==
  last.op = "ips" => IsSorted(last.snap) /\ NoDup(last.snap)

\* C1 witness: ips() returned three or more addresses.
C1_Witness == last.op = "ips" /\ Len(last.snap) >= 3

\* C2: removeIp of an address that is not in the set leaves the set as it
\* was, returns false and does not abort.
C2_RemoveAbsentIsNoOp ==
  (last.op = "removeIp" /\ AbsentBefore) =>
    /\ health = "ok"
    /\ last.ret = "false"
    /\ _ips = last.pre

\* C3: a scan reports added = N \ P and removed = P \ N, each group once, and
\* commits N, where P is the group set on entry and N the groups derived from
\* the current addresses.
C3_ScanDiffsCommitted ==
  last.op = "scan" =>
    LET P == Range(last.old)
        N == {derive[a] : a \in Range(_ips)}
    IN /\ Range(last.added) = N \ P
       /\ NoDup(last.added)
       /\ Range(last.removed) = P \ N
       /\ NoDup(last.removed)
       /\ Range(_multicastGroups) = N

\* C4: after any scan no group is both in the added and in the removed list.
C4_AddedRemovedDisjoint ==
  last.op = "scan" => Range(last.added) \cap Range(last.removed) = {}

\* C4 witness: a scan over colliding addresses that added and removed groups.
C4_Witness ==
  /\ last.op = "scan"
  /\ last.added # <<>>
  /\ last.removed # <<>>
  /\ Collides(_ips)

\* C5: a scan that directly follows a scan, with no addIp or removeIp in
\* between, reports nothing added and nothing removed.
C5_RescanReportsNothing ==
  (last.op = "scan" /\ twice) => last.added = <<>> /\ last.removed = <<>>

\* C5 witness: a scan repeated over colliding addresses whose committed
\* vector is not even in order.
C5_Witness ==
  /\ last.op = "scan"
  /\ twice
  /\ Collides(_ips)
  /\ ~IsSorted(_multicastGroups)

\* C9: addIp(x) directly after addIp(x) leaves the set exactly as the first
\* call left it.
C9_AddTwiceIdempotent ==
  (last.op = "addIp" /\ twice) => _ips = last.pre

\* C9 witness: the same address added twice in a row to a set of two or more.
C9_Witness == last.op = "addIp" /\ twice /\ Len(_ips) >= 2 /\ health = "ok"

\* C18: every addIp calls lwip_init_interface with its address, whether or
\* not the address is in the set, and returns true; when the address was in
\* the set the set is left as it was.
C18_AddRegistersAndSucceeds ==
  last.op = "addIp" =>
    /\ last.reg = <<last.arg>>
    /\ last.ret = "true"
    /\ ~AbsentBefore => _ips = last.pre

\* C18 witness: an address already in a set of three was added again, after
\* other calls, and was registered again.
C18_Witness ==
  /\ last.op = "addIp"
  /\ ~twice
  /\ ~AbsentBefore
  /\ Len(last.pre) = 3
  /\ last.reg = <<last.arg>>

\* C13: the stored _multicastGroups is in ascending order and holds no group
\* twice in every reachable state, colliding addresses included.
C13_StoredSortedNoDup == IsSorted(_multicastGroups) /\ NoDup(_multicastGroups)

\* ------------------------------------------------------------- claims on SpecNetif
\* The recorded calls on interface i, in order, each with its own flag.
PollsOf(i) ==
  LET own(h) == [q |-> h.q, ret |-> h.ret,
                 was |-> IF i = "netif4" THEN h.was4 ELSE h.was6,
                 now |-> IF i = "netif4" THEN h.now4 ELSE h.now6]
      s == SelectSeq(hist, LAMBDA h : h.n = i)
  IN [k \in DOMAIN s |-> own(s[k])]

DownCode(i) == IF i = "netif4" THEN "NETIF_DOWN_IP4" ELSE "NETIF_DOWN_IP6"

UpCode(i) == IF i = "netif4" THEN "NETIF_UP_IP4" ELSE "NETIF_UP_IP6"

\* Five calls in a row on i, from index j, that started with the flag up and
\* were answered up, up, down, down, up.
UpUpDownDownUp(s, j) ==
  /\ j + 4 <= Len(s)
  /\ s[j].was
  /\ <<s[j].q, s[j + 1].q, s[j + 2].q, s[j + 3].q, s[j + 4].q>>
       = <<TRUE, TRUE, FALSE, FALSE, TRUE>>

\* C6: on a known handle the call returns a transition code exactly when the
\* interface's answer differs from the stored flag, which is exactly when it
\* differs from the answer at the previous call on that handle; the code names
\* the direction; the flag changes exactly when a code is returned; and from
\* flag up the answers (up, up, down, down, up) give (None, None, Down, None, Up).
C6_EdgeTriggered ==
  \A i \in Netifs :
    LET s == PollsOf(i)
    IN /\ \A k \in DOMAIN s :
            /\ (s[k].ret # "NONE") <=> (s[k].q # s[k].was)
            /\ (s[k].ret # "NONE") <=> (s[k].now # s[k].was)
            /\ s[k].ret \in {"NONE", IF s[k].q THEN UpCode(i) ELSE DownCode(i)}
            /\ k > 1 => ((s[k].ret # "NONE") <=> (s[k].q # s[k - 1].q))
       /\ \A j \in DOMAIN s :
            UpUpDownDownUp(s, j) =>
              <<s[j].ret, s[j + 1].ret, s[j + 2].ret, s[j + 3].ret, s[j + 4].ret>>
                = <<"NONE", "NONE", DownCode(i), "NONE", UpCode(i)>>

\* C6 witness: interface netif4 was polled five times from flag up with the
\* answers up, up, down, down, up.
C6_Witness == UpUpDownDownUp(PollsOf("netif4"), 1)

\* C14: a call with a handle that is neither netif4 nor netif6, null
\* included, returns ZTS_EVENT_NONE and leaves both was-up flags as they were.
C14_UnknownHandleNoChange ==
  \A k \in DOMAIN hist :
    hist[k].n \notin Netifs =>
      /\ hist[k].ret = "NONE"
      /\ hist[k].now4 = hist[k].was4
      /\ hist[k].now6 = hist[k].was6

\* C14 witness: the last two calls were made with null and with a foreign
\* handle while both interfaces had a transition to report.
C14_Witness ==
  /\ Len(hist) >= 2
  /\ {hist[Len(hist) - 1].n, hist[Len(hist)].n} = {"null", "other"}
  /\ netif4WasUpLastCheck # lwip_up["netif4"]
  /\ netif6WasUpLastCheck # lwip_up["netif6"]

\* ------------------------------------------------------------- claims on SpecLife
\* C7: once the destructor has written the shutdown byte, threadMain returns
\* and the destructor runs to its end, whatever the thread was doing when the
\* byte was written and whatever calls were made on the device before.
C7_DestructionCompletes ==
  /\ (pipeBytes > 0) ~> (tpc = "returned")
  /\ (pipeBytes > 0) ~> (dpc = "done")

\* C7 witness: the byte is in the pipe while threadMain is in its sleep, on a
\* device that has had addresses added and groups scanned.
C7_Witness ==
  /\ pipeBytes > 0
  /\ tpc = "nanosleep"
  /\ _ips # <<>>
  /\ _multicastGroups # <<>>

\* C10 as stated: construction posts an event for the device's network id,
\* destruction posts NETWORK_DOWN after it, and NETWORK_DOWN is posted once.
C10_ConstructionAndDownPosted ==
  /\ dpc # "new" =>
       /\ Len(events) >= 1
       /\ events[1][1] = _nwid
       /\ events[1][2] # "NETWORK_DOWN"
  /\ dpc \notin {"new", "live"} =>
       /\ Len(events) = 2
       /\ events[2] = <<_nwid, "NETWORK_DOWN">>

\* C10 as amended: the constructor posts nothing; the destructor posts
\* (_nwid, NETWORK_DOWN) as its first step, and over the life of the device
\* that is the only event posted, once.
C10_OnlyNetworkDownOnce ==
  IF dpc \in {"new", "live"}
  THEN events = <<>>
  ELSE events = << <<_nwid, "NETWORK_DOWN">> >>

\* C10 witness: a destroyed device.
C10_Witness == dpc = "done" /\ Len(events) = 1

\* The destructor's positions in program order, lines 89 to 96.
DtorOrder ==
  <<"live", "posted", "stopped", "signalled", "whacked", "disposed", "joined", "done">>

\* The destructor has reached Thread::join (line 94) or passed it.
JoinStarted == dpc \in {"disposed", "joined", "done"}

\* C12: the destructor posts NETWORK_DOWN, clears _run, writes the shutdown
\* byte, whacks, disposes the interfaces, joins the thread and closes the
\* pipe, in this order and each at its own step; the join is not started
\* before the byte is written, and the pipe is not closed while threadMain
\* still runs.
C12_DestructorOrder ==
  /\ [][(dpc # "new" /\ dpc' # dpc) =>
          \E k \in 1..(Len(DtorOrder) - 1) :
            dpc = DtorOrder[k] /\ dpc' = DtorOrder[k + 1]]_vars
  /\ [][(events' # events) <=> (dpc = "live" /\ dpc' = "posted")]_vars
  /\ [][(dpc = "live" /\ dpc' = "posted") =>
          events' = Append(events, <<_nwid, "NETWORK_DOWN">>)]_vars
  /\ [][(dpc # "new" /\ _run' # _run) <=> (dpc = "posted" /\ dpc' = "stopped")]_vars
  /\ [][(pipeBytes' # pipeBytes) <=>
          (dpc = "stopped" /\ dpc' = "signalled" /\ pipe = "open")]_vars
  /\ [][(dpc # "new" /\ pipe' # pipe) <=>
          (dpc = "joined" /\ dpc' = "done" /\ pipe = "open")]_vars
  /\ []((JoinStarted /\ pipe = "open") => pipeBytes > 0)
  /\ [](dpc \in {"joined", "done"} => tpc = "returned")
  /\ [](pipe = "closed" => tpc = "returned")

\* C12 witness: the destructor waits in Thread::join, the byte written, while
\* threadMain is still in its sleep.
C12_Witness == dpc = "disposed" /\ tpc = "nanosleep" /\ pipeBytes > 0

\* The destructor's write at line 91 has run.
SignalWritten == dpc \in {"signalled", "whacked", "disposed", "joined", "done"}

\* C15: threadMain returns only after the shutdown byte has been written:
\* while no byte is in the pipe every select is followed by the sleep and
\* another select, the first select that sees the byte is followed by the
\* return, and a returned thread stays returned.
C15_ReturnsOnlyAfterSignal ==
  /\ [](tpc = "returned" => SignalWritten)
  /\ [][(tpc = "select" /\ tpc' # tpc /\ pipeBytes = 0) => tpc' = "nanosleep"]_vars
  /\ [][(tpc = "select" /\ tpc' # tpc /\ pipeBytes > 0) => tpc' = "returned"]_vars
  /\ [][tpc = "returned" => tpc' = "returned"]_vars

\* threadMain is running.
ThreadRunning == tpc \in {"select", "nanosleep"}

\* C16: when ::pipe fails the constructor fails: no device comes to life on
\* the failed pipe and no monitor thread runs on it.
C16_FailedPipeFailsConstruction ==
  pipe = "failed" => (dpc = "new" /\ ~ThreadRunning)

\* ------------------------------------------------------------- claims on SpecRun
\* The destructor has passed its line 90.
RunCleared == dpc \in {"stopped", "signalled", "whacked", "disposed", "joined", "done"}

\* C11: _run is true from the constructor on, becomes false once, at line 90
\* of the destructor, and no step of any operation (addIp, removeIp, ips,
\* scanMulticastGroups, setEnabled, setMtu,
\* recognizeLowerLevelInterfaceStateChange, threadMain) sets it back to true.
C11_RunClearedOnceByDestructor ==
  /\ [](dpc \in {"live", "posted"} => _run)
  /\ [](RunCleared => ~_run)
  /\ [][(dpc # "new" /\ _run' # _run) => (dpc = "posted" /\ _run /\ ~_run')]_vars
  /\ [][(dpc # "new" /\ ~_run) => ~_run']_vars

\* C11 witness: a destroyed device whose owner had disabled it, set its mtu,
\* added an address and polled an interface, and whose thread has returned.
C11_Witness ==
  /\ dpc = "done"
  /\ ~_run
  /\ ~_enabled
  /\ _mtu = MaxMtu
  /\ _ips # <<>>
  /\ hist # <<>>
  /\ tpc = "returned"

\* ------------------------------------------------------------- claims on SpecConc
\* C8: when two addIp calls overlap, then once both have returned the set is
\* the ascending, duplicate-free vector of what it held plus both addresses,
\* whatever the order of the threads' steps.
C8_ConcurrentAddsUnion ==
  (conc.on /\ conc.left = {}) => _ips = SetToSortedSeq(conc.base \cup conc.xs)

\* The thread is inside the critical section of addIp or removeIp.
InsideAddrUpdate(u) ==
  pc[u] \in {"addIp_push", "addIp_sort", "addIp_unlock", "removeIp_erase"}

\* C17: ips() copies _ips at a moment when no addIp or removeIp is between its
\* lock and its unlock, so the copy is the set before or after each of them,
\* never the pushed and not yet sorted vector; and a returned copy changes
\* only when its owner makes its next call.
C17_SnapshotConsistent ==
  /\ [](\A t \in Callers : IsSorted(call[t].snap) /\ NoDup(call[t].snap))
  /\ [][\A t \in Callers :
          (pc[t] = "ips_lock" /\ pc'[t] = "idle") =>
            /\ call'[t].snap = _ips
            /\ _ips_m = "free"
            /\ \A u \in Callers \ {t} : ~InsideAddrUpdate(u)]_vars
  /\ [][\A t \in Callers :
          call'[t].snap # call[t].snap => pc[t] \in {"ips_lock", "idle"}]_vars

\* C17 witness: a returned copy of two addresses, while the other thread has
\* pushed a third address and not yet sorted the vector.
C17_Witness ==
  \E t \in Callers : \E u \in Callers \ {t} :
    /\ pc[t] = "idle"
    /\ call[t].op = "ips"
    /\ Len(call[t].snap) = 2
    /\ pc[u] = "addIp_sort"
    /\ ~IsSorted(_ips)

\* The thread waits for a mutex: _ips_m in addIp, removeIp, ips() and at line
\* 212 of the scan, _multicastGroups_m at line 210.
WaitsForMutex(t) ==
  pc[t] \in {"addIp_lock", "removeIp_lock", "ips_lock", "scan_lock", "scan_ips"}

\* C19: no thread waits for a mutex while it holds _ips_m (the scan takes
\* _multicastGroups_m first and _ips_m inside it, nothing takes them the other
\* way round); in no state are all the threads that are inside a call stuck;
\* and under fair scheduling every call that was started returns, unless the
\* process was ended by the erase of end() in removeIp.
C19_NoDeadlock ==
  /\ [](\A t \in Callers : _ips_m = t => ~WaitsForMutex(t))
  /\ []((health = "ok" /\ \E t \in Callers : pc[t] # "idle") =>
          \E t \in Callers : ENABLED <<CallSteps(t)>>_vars)
  /\ \A t \in Callers : (pc[t] # "idle") ~> (pc[t] = "idle" \/ health = "crashed")

\* C19 witness: one thread is in the scan, holding _multicastGroups_m and
\* waiting for _ips_m, which the other thread holds inside addIp.
C19_Witness ==
  \E t \in Callers : \E u \in Callers \ {t} :
    /\ pc[t] = "scan_ips"
    /\ _multicastGroups_m = t
    /\ pc[u] = "addIp_sort"
    /\ _ips_m = u

\* The thread is in scanMulticastGroups between its lock and its return.
InsideScan(t) == pc[t] \in {"scan_ips", "scan_diff"}

\* C20: scans are serialised by _multicastGroups_m, held from before ips() is
\* read until the swap: at most one thread is inside, _multicastGroups
\* changes only at the return of the scan that holds the mutex, and each scan
\* reports exactly the groups its own commit brings in as added and exactly
\* those it takes out as removed, against the groups the scan before it
\* committed; so each group that comes in or goes out is reported by the one
\* scan that commits the change.
C20_ScansSerialized ==
  /\ [](\A t \in Callers : InsideScan(t) =>
          /\ _multicastGroups_m = t
          /\ \A u \in Callers \ {t} : ~InsideScan(u))
  /\ [][_multicastGroups' # _multicastGroups =>
          \E t \in Callers :
            pc[t] = "scan_diff" /\ pc'[t] = "idle" /\ _multicastGroups_m = t]_vars
  /\ [][\A t \in Callers :
          (pc[t] = "scan_diff" /\ pc'[t] = "idle") =>
            LET P == Range(_multicastGroups)
                N == Range(_multicastGroups')
            IN /\ N = {derive[a] : a \in Range(call[t].pre)}
               /\ call'[t].old = _multicastGroups
               /\ Range(call'[t].added) = N \ P
               /\ Range(call'[t].removed) = P \ N]_vars

\* C20 witness: one thread is in its scan with a snapshot taken before the
\* other thread emptied the address set; the other thread waits at line 210
\* with its own scan.
C20_Witness ==
  \E t \in Callers : \E u \in Callers \ {t} :
    /\ pc[t] = "scan_diff"
    /\ call[t].pre # <<>>
    /\ _ips = <<>>
    /\ pc[u] = "scan_lock"

\* C8 witness: two overlapping calls added two new addresses to a set that
\* was not empty, and both have returned.
C8_Witness ==
  /\ conc.on
  /\ conc.left = {}
  /\ Cardinality(conc.xs) = 2
  /\ conc.base # {}
  /\ conc.base \cap conc.xs = {}
====
